---- MODULE Spec2Model ----
(***************************************************************************)
(* ProductShowcase: a split-viewport 3D preview of two product panels.     *)
(*                                                                         *)
(* The repository holds three near-duplicate variants of the class:        *)
(*   "hover"   src/unnamed/part_000 - idle rotation frozen by hover        *)
(*   "scrollA" src/assets/three-product-showcase.js:1-452 - scroll driven, *)
(*             placeholder models created synchronously                    *)
(*   "scrollB" src/assets/three-product-showcase.js:454-914 - scroll       *)
(*             driven, models loaded asynchronously                        *)
(* One instance is modelled; its variant is fixed at construction.         *)
(*                                                                         *)
(* JavaScript numbers are modelled as exact rationals <<n, d>> in lowest   *)
(* terms with d > 0, extended by <<1,0>> (Infinity), <<-1,0>> (-Infinity)  *)
(* and <<0,0>> (NaN).  Lengths are whole CSS pixels.                       *)
(***************************************************************************)
EXTENDS Integers, Sequences, FiniteSets, TLC

\* ---------------------------------------------------------------- bounds
\* Frame callbacks modelled per behaviour.
MaxTicks == 2
\* destroy() calls modelled per behaviour.
MaxDestroys == 2
\* ProductShowcase constructions modelled per container.
MaxInstances == 2
\* Showcase containers that follow this one in the document.
MaxSiblings == 2

\* ------------------------------------------------------ program constants
\* window.innerWidth < 768
MobileBreakpoint == 768
\* this.rotationSpeed = 0.3 (radians per second), in tenths
RotationSpeedTenths == 3
\* the smoothing factor 0.08 = SmoothNum / SmoothDen
SmoothNum == 2
SmoothDen == 25
\* if (window.scrollY > 50)
ScrollThreshold == 50

Variants == {"hover", "scrollA", "scrollB"}
ScrollVariants == {"scrollA", "scrollB"}
\* panels = JSON.parse(container.dataset.panels || '[]')
PanelCounts == {0, 1, 2}
\* <<innerWidth, innerHeight>> of the window the environment produces (CSS
\* pixels); the showcase container fills the window.
Sizes == {<<375, 800>>, <<767, 601>>, <<768, 801>>, <<1024, 600>>}
\* clock.getDelta() in milliseconds
Deltas == {0, 16}
\* -rect.top read by onScroll
Offsets == (0 - 1) .. 3
\* container.offsetHeight - window.innerHeight seen by onScroll
Totals == {0 - 1, 0, 2}

\* ------------------------------------------------------ JavaScript numbers
NaN == <<0, 0>>
PosInf == <<1, 0>>
NegInf == <<0 - 1, 0>>

Abs(x) == IF x < 0 THEN 0 - x ELSE x

RECURSIVE GCD(_, _)
GCD(a, b) == IF b = 0 THEN a ELSE GCD(b, a % b)

\* n / d with d # 0, in lowest terms with a positive denominator.
Norm(n, d) ==
  LET g == GCD(Abs(n), Abs(d))
      s == IF d < 0 THEN 0 - 1 ELSE 1
  IN  <<(s * n) \div g, (s * d) \div g>>

IsNaN(r) == r = NaN
IsFinite(r) == r[2] # 0

FromInt(i) == <<i, 1>>
Zero == FromInt(0)
One == FromInt(1)

\* a / b of two whole numbers, as JavaScript divides: x/0 is +-Infinity, 0/0 is NaN.
JsDiv(a, b) ==
  IF b # 0 THEN Norm(a, b)
  ELSE IF a > 0 THEN PosInf
  ELSE IF a < 0 THEN NegInf
  ELSE NaN

\* Order on numbers other than NaN (Infinity compares as n/0).
RLe(p, q) == p[1] * q[2] <= q[1] * p[2]
RLt(p, q) == p[1] * q[2] < q[1] * p[2]

\* Math.min / Math.max: NaN if either argument is NaN.
MathMin(p, q) == IF IsNaN(p) \/ IsNaN(q) THEN NaN ELSE IF RLe(p, q) THEN p ELSE q
MathMax(p, q) == IF IsNaN(p) \/ IsNaN(q) THEN NaN ELSE IF RLe(q, p) THEN p ELSE q

\* Arithmetic on finite numbers; NaN is contagious.
RAdd(p, q) ==
  IF IsNaN(p) \/ IsNaN(q) THEN NaN
  ELSE LET g == GCD(p[2], q[2])
       IN  Norm(p[1] * (q[2] \div g) + q[1] * (p[2] \div g), (p[2] \div g) * q[2])
RSub(p, q) == RAdd(p, <<0 - q[1], q[2]>>)
RMul(p, q) ==
  IF IsNaN(p) \/ IsNaN(q) THEN NaN
  ELSE Norm(p[1] * q[1], p[2] * q[2])
RAbs(p) == <<Abs(p[1]), p[2]>>

\* Math.floor(x / 2) for a whole x >= 0
FloorHalf(x) == x \div 2

\* ------------------------------------------------------------ pure helpers
\* Variation: the breakpoint compared with <= instead of <.
IsMobileInclusive(innerWidth) == innerWidth <= MobileBreakpoint

\* this.isMobile = window.innerWidth < 768
IsMobileFor(innerWidth) == innerWidth < MobileBreakpoint

\* Variation: the offset divided by the section height, not by the scrollable
\* distance.
ScrollTargetBySectionHeight(scrolledPx, sectionHeightPx, viewportHeightPx) ==
  MathMax(Zero, MathMin(One, JsDiv(scrolledPx, sectionHeightPx)))

\* onScroll: Math.max(0, Math.min(1, scrolled / totalScrollable))
ScrollTarget(scrolledPx, sectionHeightPx, viewportHeightPx) ==
  LET totalScrollable == sectionHeightPx - viewportHeightPx
  IN  MathMax(Zero, MathMin(One, JsDiv(scrolledPx, totalScrollable)))

\* Variation: a factor above 1 (1.08), which steps past the target.
SmoothOvershoot(progress, target) ==
  RAdd(progress, RMul(RSub(target, progress), <<27, 25>>))

\* Variation: the factor 0.8 for 0.08.
SmoothTenfold(progress, target) ==
  RAdd(progress, RMul(RSub(target, progress), <<4, 5>>))

\* Variation: the displayed progress set to the target at once.
SmoothSnap(progress, target) == target

\* animate: scrollProgress += (targetScrollProgress - scrollProgress) * 0.08
Smooth(progress, target) ==
  RAdd(progress, RMul(RSub(target, progress), <<SmoothNum, SmoothDen>>))

\* Variation: half a turn over the whole scroll range.
RotationZHalfTurn(progress) == progress

\* animate: targetRotationZ = scrollProgress * Math.PI * 2, kept in units of pi
RotationZFor(progress) == RMul(progress, FromInt(2))

\* animate (hover): rotationSpeed * delta, delta in ms, result in 1/10000 radian
RotationStep(deltaMs) == RotationSpeedTenths * deltaMs

\* Variation: the two panels' rectangles exchanged.
ViewportRegionSwapped(i, narrow, width, height) ==
  IF narrow
  THEN LET halfHeight == FloorHalf(height)
       IN  IF i = 0 THEN <<0, 0, width, halfHeight>>
                    ELSE <<0, halfHeight, width, halfHeight>>
  ELSE LET halfWidth == FloorHalf(width)
       IN  IF i = 0 THEN <<halfWidth, 0, halfWidth, height>>
                    ELSE <<0, 0, halfWidth, height>>

\* render: the rectangle <<x, y, width, height>> handed to setViewport for
\* panel index i.
ViewportRegion(i, narrow, width, height) ==
  IF narrow
  THEN LET halfHeight == FloorHalf(height)
       IN  IF i = 0 THEN <<0, halfHeight, width, halfHeight>>
                    ELSE <<0, 0, width, halfHeight>>
  ELSE LET halfWidth == FloorHalf(width)
       IN  IF i = 0 THEN <<0, 0, halfWidth, height>>
                    ELSE <<halfWidth, 0, halfWidth, height>>

\* Variation: the scissor left at the whole surface.
ScissorRegionFull(i, narrow, width, height) == <<0, 0, width, height>>

\* render: the rectangle handed to setScissor for panel index i.
ScissorRegion(i, narrow, width, height) ==
  IF narrow
  THEN LET halfHeight == FloorHalf(height)
       IN  IF i = 0 THEN <<0, halfHeight, width, halfHeight>>
                    ELSE <<0, 0, width, halfHeight>>
  ELSE LET halfWidth == FloorHalf(width)
       IN  IF i = 0 THEN <<0, 0, halfWidth, height>>
                    ELSE <<halfWidth, 0, halfWidth, height>>

\* render (scrollB only): camera.aspect = width / halfHeight or halfWidth / height
HalfAspect(narrow, width, height) ==
  IF narrow THEN JsDiv(width, FloorHalf(height))
            ELSE JsDiv(FloorHalf(width), height)

\* setupCamera / onResize: camera.aspect = width / height
FullAspect(width, height) == JsDiv(width, height)

\* this.scenes[i] is defined: setupScenes pushes one scene per panel.
SceneExists(i, n) == i < n

\* The surface render() reads: the container (hover) or the window (scroll).
SurfaceW(v, wW, cW) == IF v = "hover" THEN cW ELSE wW
SurfaceH(v, wH, cH) == IF v = "hover" THEN cH ELSE wH

\* render: is renderer.render reached for panel i?  The hover variant passes
\* scenes[0] unguarded; every other draw is guarded by the scene's presence.
DrawsPanel(v, i, n) ==
  IF v = "hover" /\ i = 0 THEN TRUE ELSE SceneExists(i, n)

\* render: renderer.render(undefined, camera) raises a TypeError.
RenderThrows(v, n) == DrawsPanel(v, 0, n) /\ ~SceneExists(0, n)

\* render: the camera aspect in force during the draws of this frame.
RenderAspect(v, aspect, narrow, width, height) ==
  IF v = "scrollB" THEN HalfAspect(narrow, width, height) ELSE aspect

\* render: the rectangles passed to setViewport / setScissor, in call order.
RenderViewports(v, n, narrow, width, height) ==
  <<ViewportRegion(0, narrow, width, height)>> \o
  (IF ~RenderThrows(v, n) /\ SceneExists(1, n)
   THEN <<ViewportRegion(1, narrow, width, height)>> ELSE <<>>)

\* What the renderer holds when renderer.render(scenes[i], camera) runs.
DrawCall(i, narrow, width, height, aspect) ==
  [scene |-> i,
   viewport |-> ViewportRegion(i, narrow, width, height),
   scissor |-> ScissorRegion(i, narrow, width, height),
   scissorTest |-> TRUE,
   aspect |-> aspect]

\* render: the renderer.render calls that complete, in call order.
RenderDraws(v, n, aspect, narrow, width, height) ==
  LET a == RenderAspect(v, aspect, narrow, width, height)
  IN  IF RenderThrows(v, n) THEN <<>>
      ELSE (IF DrawsPanel(v, 0, n)
            THEN <<DrawCall(0, narrow, width, height, a)>> ELSE <<>>)
           \o
           (IF SceneExists(1, n)
            THEN <<DrawCall(1, narrow, width, height, a)>> ELSE <<>>)

\* Variation: panel 1 engaged by > instead of >=.
MouseHoverStrict(narrow, x, y, rectW, rectH) ==
  IF narrow
  THEN [i \in 0..1 |-> IF i = 0 THEN 2 * y < rectH ELSE 2 * y > rectH]
  ELSE [i \in 0..1 |-> IF i = 0 THEN 2 * x < rectW ELSE 2 * x > rectW]

\* onMouseMove: which panel the handler engages for a pointer at (x, y) in a
\* canvas rectangle of the given size: x < rect.width / 2, or y < rect.height / 2.
MouseHover(narrow, x, y, rectW, rectH) ==
  IF narrow
  THEN [i \in 0..1 |-> IF i = 0 THEN 2 * y < rectH ELSE 2 * y >= rectH]
  ELSE [i \in 0..1 |-> IF i = 0 THEN 2 * x < rectW ELSE 2 * x >= rectW]

\* A model node as a scene holds it: the models[] slot it was made for, what
\* it is, and how often destroy() has disposed its geometries and materials.
Node(i, kind) == [slot |-> i, kind |-> kind, disposals |-> 0]

\* Variation: every scene starts with a placeholder, whatever the variant.
InitialNodesPlaceholderFirst(v, i) == <<Node(i, "placeholder")>>

\* The model nodes of scene i when init() returns: createPlaceholderModel has
\* run for every panel in part_000 and the first class body of
\* three-product-showcase.js; in the second, loadModels has only started the
\* loads and the scene holds its lights alone.
InitialNodes(v, i) == IF v # "scrollB" THEN <<Node(i, "placeholder")>> ELSE <<>>

\* Variation: every node goes to the first scene.
SceneAddFirst(scs, i, node) == [scs EXCEPT ![1] = Append(@, node)]

\* this.scenes[index].add(node); the sequence is indexed from 1.
SceneAdd(scs, i, node) == [scs EXCEPT ![i + 1] = Append(@, node)]

\* Variation: the slot is the number of models already present (a push).
ModelsPush(mdl, i, kind) ==
  IF mdl[0] = "none" THEN [mdl EXCEPT ![0] = kind] ELSE [mdl EXCEPT ![1] = kind]

\* this.models[index] = node
ModelsWrite(mdl, i, kind) == [mdl EXCEPT ![i] = kind]

\* Variation: the signal raised by every settled load.
ReadyFiresEach(count, n) == count >= 1

\* loadModels: if (loadedCount === this.panels.length) this.onModelsLoaded()
ReadyFires(count, n) == count = n

\* Variation: no visibility test in the frame callback.
FrameRunsAlways(inView) == TRUE

\* animate (scroll): if (!this.isInView) return;
FrameRuns(inView) == inView

\* Variation: the width passed for both dimensions.
RendererSizeSquare(v, wW, wH, cW, cH) ==
  <<SurfaceW(v, wW, cW), SurfaceW(v, wW, cW)>>

\* setupRenderer / onResize: this.renderer.setSize(width, height)
RendererSizeFor(v, wW, wH, cW, cH) == <<SurfaceW(v, wW, cW), SurfaceH(v, wH, cH)>>

\* destroy: scene.traverse(object => dispose its geometry and material)
DisposeScene(scene) ==
  [k \in 1..Len(scene) |-> [scene[k] EXCEPT !.disposals = @ + 1]]

\* Variation: the wrapper left visible whatever the observer reports.
WrapperAlwaysVisible(isIntersecting) == TRUE

\* canvasWrapper.style.visibility = entry.isIntersecting ? 'visible' : 'hidden'
WrapperVisibility(isIntersecting) == isIntersecting

\* window.scrollY at a scroll event at which onScroll reads -rect.top =
\* scrolled: rect.top is the container's offset in the document less
\* window.scrollY, and the container starts 49 pixels down the document.
ScrollYFor(scrolled) == scrolled + 49

\* The first 'scroll' listener call: if (window.scrollY > 50)
\* container.classList.add('has-scrolled').  The listener is registered with
\* { once: true }, so it is removed when it has been called once.
TrackScroll(has, registered, scrollY) ==
  IF registered /\ scrollY > ScrollThreshold THEN TRUE ELSE has

\* setupScrollObserver exists in the scroll variants only.
HasObserver(v) == v \in {"scrollA", "scrollB"}

\* The 'shopify:section:unload' listener exists in three-product-showcase.js only.
HasUnloadHandler(v) == v \in {"scrollA", "scrollB"}

\* container._showcase, which the unload listener reads: no statement assigns it.
ContainerShowcase == "undefined"

\* new ProductShowcase(container) raises when the render() of its first,
\* synchronous animate() does.
ConstructorThrows(v, n) == RenderThrows(v, n)

\* initShowcases: containers.forEach from container k on.  A container with the
\* marker is passed over; one without it is constructed and marked, unless
\* new THREE.WebGLRenderer(...) in setupRenderer raises for want of a WebGL
\* context: the exception leaves the constructor before animate() and the
\* marker, and leaves forEach, so no later container is visited.
RECURSIVE InitFrom(_, _, _)
InitFrom(status, contextAvailable, k) ==
  IF k > Len(status) THEN status
  ELSE IF status[k] = "running" THEN InitFrom(status, contextAvailable, k + 1)
  ELSE IF contextAvailable[k]
       THEN InitFrom([status EXCEPT ![k] = "running"], contextAvailable, k + 1)
       ELSE [status EXCEPT ![k] = "failed"]

\* ------------------------------------------------------------------ state
VARIABLES
  variant,              \* which of the three class bodies this instance runs
  nPanels,              \* this.panels.length ( = this.scenes.length )
  winW, winH,           \* window.innerWidth, window.innerHeight
  contW, contH,         \* container.clientWidth, container.clientHeight
  isMobile,             \* this.isMobile
  rendererSize,         \* <<w, h>> of the last renderer.setSize
  cameraAspect,         \* this.camera.aspect
  models,               \* this.models[i]: "none", "placeholder" or "asset"
  loadState,            \* loader.load for panel i: "na", "pending", "ok", "failed"
  loadedCount,          \* loadModels' loadedCount
  readyCount,           \* number of onModelsLoaded calls
  rotY,                 \* models[i].rotation.y, in 1/10000 radian (hover)
  rotZ,                 \* models[i].rotation.z, in units of pi (scroll)
  isHovered,            \* this.isHovered
  pointerOver,          \* the element under the pointer
  movedSinceEnter,      \* a canvas mousemove was handled since the pointer entered it
  leftCanvas,           \* the canvas 'mouseleave' ran and the pointer has not come back
  pointerHandled,       \* some pointer listener of the instance has run
  scrollProgress,       \* this.scrollProgress
  targetScrollProgress, \* this.targetScrollProgress
  isInView,             \* this.isInView
  wrapperVisible,       \* canvasWrapper.style.visibility is not 'hidden'
  scrollIn,             \* <<scrolled, totalScrollable>> computed by the last onScroll
  scrollSeen,           \* onScroll has run at least once
  hasScrolled,          \* the container carries the class 'has-scrolled'
  smoothBase,           \* scrollProgress when the target was last assigned
  smoothTicks,          \* unpaused ticks since the target was last assigned
  vpCalls,              \* rectangles passed to setViewport by the last render()
  drawn,                \* renderer.render calls of the last render()
  renderSurface,        \* <<width, height>> read by the last render()
  renderNarrow,         \* this.isMobile as read by the last render()
  threw,                \* the last frame callback raised
  lastDelta,            \* clock.getDelta() of the last frame, ms
  ticks,                \* frame callbacks run since construction
  rafPending,           \* a requestAnimationFrame callback of the instance is scheduled
  scenes,               \* this.scenes: per scene, the model nodes added to it
  destroyCalls,         \* destroy() calls made on the instance
  rendererDisposals,    \* renderer.dispose() calls
  observing,            \* the IntersectionObserver is connected
  lateRendererCall,     \* a renderer method other than dispose ran after destroy()
  initialized,          \* container.dataset.initialized is set
  instances,            \* ProductShowcase constructions run for the container
  reinit,               \* what the last initShowcases() after the first did
  siblings,             \* the containers after this one: "uninitialized", "running"
                        \* (constructed, marked, animating) or "failed" (constructor raised)
  unload                \* what the last 'shopify:section:unload' notification did

envVars == <<winW, winH, contW, contH>>
layoutVars == <<isMobile, rendererSize>>
loadVars == <<models, loadState, loadedCount, readyCount, scenes>>
hoverVars == <<isHovered, pointerOver, movedSinceEnter, leftCanvas, pointerHandled>>
scrollVars == <<targetScrollProgress, scrollIn, scrollSeen, hasScrolled>>
frameVars == <<cameraAspect, rotY, rotZ, scrollProgress, vpCalls, drawn,
               renderSurface, renderNarrow, threw, lastDelta, ticks, rafPending>>
disposeVars == <<destroyCalls, rendererDisposals, observing, lateRendererCall>>
pageVars == <<initialized, instances, reinit, siblings, unload>>
viewVars == <<isInView, wrapperVisible>>
vars == <<variant, nPanels, envVars, layoutVars, loadVars, hoverVars, scrollVars,
          frameVars, viewVars, smoothBase, smoothTicks, disposeVars, pageVars>>

Idx == 0..1
PointerPlaces == {"outside", "canvas", "panel0", "panel1"}
PanelEl(i) == IF i = 0 THEN "panel0" ELSE "panel1"

\* ------------------------------------------------------------ construction
\* constructor + init(): setupRenderer, setupScenes, setupCamera, loadModels,
\* setupEventListeners, (setupScrollObserver,) and the first animate() call,
\* which runs synchronously and renders one frame.
Init ==
  /\ variant \in Variants
  /\ nPanels \in PanelCounts
  /\ \E size \in Sizes : winW = size[1] /\ winH = size[2]
  /\ contW = winW
  /\ contH = winH
  /\ isMobile = IsMobileFor(winW)
  /\ rendererSize = RendererSizeFor(variant, winW, winH, contW, contH)
  /\ cameraAspect =
       RenderAspect(variant,
                    FullAspect(SurfaceW(variant, winW, contW), SurfaceH(variant, winH, contH)),
                    isMobile, SurfaceW(variant, winW, contW), SurfaceH(variant, winH, contH))
  /\ models = [i \in Idx |->
                 IF variant # "scrollB" /\ i < nPanels THEN "placeholder" ELSE "none"]
  /\ loadState = [i \in Idx |->
                    IF variant = "scrollB" /\ i < nPanels THEN "pending" ELSE "na"]
  /\ loadedCount = (IF variant = "scrollB" THEN 0 ELSE nPanels)
  /\ readyCount = (IF variant = "scrollB" THEN 0
                   ELSE Cardinality({k \in 1..nPanels : ReadyFires(k, nPanels)}))
  /\ rotY = [i \in Idx |-> 0]
  /\ rotZ = [i \in Idx |-> Zero]
  /\ isHovered = [i \in Idx |-> FALSE]
  /\ pointerOver \in (IF variant = "hover"
                      THEN {"outside", "canvas"} \cup {PanelEl(i) : i \in 0..(nPanels - 1)}
                      ELSE {"outside"})
  /\ movedSinceEnter = FALSE
  /\ leftCanvas = FALSE
  /\ pointerHandled = FALSE
  /\ scrollProgress = Zero
  /\ targetScrollProgress = Zero
  /\ isInView = TRUE
  /\ wrapperVisible = TRUE
  /\ scrollIn = <<0, 0>>
  /\ scrollSeen = FALSE
  /\ hasScrolled = FALSE
  /\ smoothBase = Zero
  /\ smoothTicks = 0
  /\ renderSurface = rendererSize
  /\ renderNarrow = isMobile
  /\ vpCalls = RenderViewports(variant, nPanels, isMobile, rendererSize[1], rendererSize[2])
  /\ drawn = RenderDraws(variant, nPanels, FullAspect(rendererSize[1], rendererSize[2]),
                         isMobile, rendererSize[1], rendererSize[2])
  /\ threw = RenderThrows(variant, nPanels)
  /\ lastDelta = 0
  /\ ticks = 0
  /\ rafPending = TRUE
  /\ scenes = [k \in 1..nPanels |-> InitialNodes(variant, k - 1)]
  /\ destroyCalls = 0
  /\ rendererDisposals = 0
  /\ observing = HasObserver(variant)
  /\ lateRendererCall = FALSE
  /\ initialized = ~ConstructorThrows(variant, nPanels)
  /\ instances = 1
  /\ reinit = "none"
  /\ siblings = [c \in 1..MaxSiblings |-> "uninitialized"]
  /\ unload = "none"

\* ---------------------------------------------------------------- actions
\* render(): reads the surface size and this.isMobile, sets the viewports and
\* draws the scenes that exist.
Render ==
  LET width == SurfaceW(variant, winW, contW)
      height == SurfaceH(variant, winH, contH)
  IN  /\ renderSurface' = <<width, height>>
      /\ renderNarrow' = isMobile
      /\ vpCalls' = RenderViewports(variant, nPanels, isMobile, width, height)
      /\ drawn' = RenderDraws(variant, nPanels, cameraAspect, isMobile, width, height)
      /\ cameraAspect' = RenderAspect(variant, cameraAspect, isMobile, width, height)
      /\ threw' = RenderThrows(variant, nPanels)
      /\ lateRendererCall' = (lateRendererCall \/ destroyCalls >= 1)

\* Variation: every model gated by panel 0's flag.
HoverRotationSharedFlag(rot, mdl, hov, deltaMs) ==
  [i \in 0..1 |-> IF mdl[i] # "none" /\ ~hov[0]
                  THEN rot[i] + RotationStep(deltaMs) ELSE rot[i]]

\* animate (hover): models.forEach((model, index) => { if (model &&
\* !this.isHovered[index]) model.rotation.y += this.rotationSpeed * delta })
HoverRotation(rot, mdl, hov, deltaMs) ==
  [i \in Idx |-> IF mdl[i] # "none" /\ ~hov[i]
                 THEN rot[i] + RotationStep(deltaMs) ELSE rot[i]]

\* animate (scroll): models.forEach((model) => { if (model)
\* model.rotation.z = targetRotationZ })
ScrollRotation(rot, mdl, progress) ==
  [i \in Idx |-> IF mdl[i] # "none" THEN RotationZFor(progress) ELSE rot[i]]

\* animate() of the hover variant, run as a frame callback.
AnimateHover ==
  /\ variant = "hover"
  /\ ticks < MaxTicks
  /\ ticks' = ticks + 1
  /\ \E d \in Deltas :
       /\ lastDelta' = d
       /\ rotY' = HoverRotation(rotY, models, isHovered, d)
  /\ Render
  /\ rafPending' = TRUE
  /\ UNCHANGED <<variant, nPanels, envVars, layoutVars, loadVars, hoverVars,
                 scrollVars, rotZ, scrollProgress, viewVars, smoothBase,
                 smoothTicks, destroyCalls, rendererDisposals, observing, pageVars>>

\* animate() of the scroll variants: if (!this.isInView) return; otherwise
\* smooth, rotate and render.
AnimateScroll ==
  /\ variant \in ScrollVariants
  /\ ticks < MaxTicks
  /\ ticks' = ticks + 1
  /\ rafPending' = TRUE
  /\ IF ~FrameRuns(isInView)
     THEN UNCHANGED <<cameraAspect, rotZ, scrollProgress, vpCalls, drawn,
                      renderSurface, renderNarrow, threw, smoothTicks,
                      lateRendererCall>>
     ELSE /\ scrollProgress' = Smooth(scrollProgress, targetScrollProgress)
          /\ rotZ' = ScrollRotation(rotZ, models, scrollProgress')
          /\ smoothTicks' = smoothTicks + 1
          /\ Render
  /\ UNCHANGED <<variant, nPanels, envVars, layoutVars, loadVars, hoverVars,
                 scrollVars, rotY, lastDelta, viewVars, smoothBase, destroyCalls,
                 rendererDisposals, observing, pageVars>>

\* The window, and the container that fills it, change size and the 'resize'
\* listener runs: onResize() reads the new size and sets isMobile, camera.aspect
\* and the renderer size.  The browser dispatches 'resize' in the rendering
\* update that follows the change, ahead of scroll events and frame callbacks,
\* and no other listener of the class reads what onResize writes in between,
\* so the change and the listener are one step.
OnResize ==
  /\ \E size \in Sizes \ {<<winW, winH>>} :
       /\ winW' = size[1]
       /\ winH' = size[2]
       /\ contW' = size[1]
       /\ contH' = size[2]
  /\ isMobile' = IsMobileFor(winW')
  /\ cameraAspect' = FullAspect(SurfaceW(variant, winW', contW'),
                                SurfaceH(variant, winH', contH'))
  /\ rendererSize' = RendererSizeFor(variant, winW', winH', contW', contH')
  /\ lateRendererCall' = (lateRendererCall \/ destroyCalls >= 1)
  /\ UNCHANGED <<variant, nPanels, loadVars, hoverVars, scrollVars, rotY, rotZ,
                 scrollProgress, vpCalls, drawn, renderSurface, renderNarrow,
                 threw, lastDelta, ticks, rafPending, viewVars,
                 smoothBase, smoothTicks, destroyCalls, rendererDisposals,
                 observing, pageVars>>

\* onScroll(): the 'scroll' listener of the scroll variants, taken alone.  The
\* container's class list, which the other 'scroll' listener writes and no
\* code reads, is followed by ScrollEvent.
OnScroll ==
  /\ variant \in ScrollVariants
  /\ \E scrolled \in Offsets, total \in Totals :
       /\ scrollIn' = <<scrolled, (winH + total) - winH>>
       /\ targetScrollProgress' = ScrollTarget(scrolled, winH + total, winH)
  /\ scrollSeen' = TRUE
  /\ smoothBase' = scrollProgress
  /\ smoothTicks' = 0
  /\ UNCHANGED <<variant, nPanels, envVars, layoutVars, loadVars, hoverVars,
                 hasScrolled, frameVars, viewVars, disposeVars, pageVars>>

\* A 'scroll' event of the window in the scroll variants, with both listeners
\* in the order of their registration: onScroll(), then, at the first event
\* only ({ once: true }), the listener that marks the container.
ScrollEvent ==
  /\ variant \in ScrollVariants
  /\ \E scrolled \in Offsets, total \in Totals :
       /\ scrollIn' = <<scrolled, (winH + total) - winH>>
       /\ targetScrollProgress' = ScrollTarget(scrolled, winH + total, winH)
       /\ hasScrolled' = TrackScroll(hasScrolled, ~scrollSeen, ScrollYFor(scrolled))
  /\ scrollSeen' = TRUE
  /\ smoothBase' = scrollProgress
  /\ smoothTicks' = 0
  /\ UNCHANGED <<variant, nPanels, envVars, layoutVars, loadVars, hoverVars,
                 frameVars, viewVars, disposeVars, pageVars>>

\* The IntersectionObserver callback: this.isInView = entry.isIntersecting,
\* and the canvas wrapper is shown or hidden to match.
OnIntersect ==
  /\ variant \in ScrollVariants
  /\ observing
  /\ isInView' = ~isInView
  /\ wrapperVisible' = WrapperVisibility(isInView')
  /\ UNCHANGED <<variant, nPanels, envVars, layoutVars, loadVars, hoverVars,
                 scrollVars, frameVars, smoothBase, smoothTicks, disposeVars,
                 pageVars>>

\* Variation: no 'mouseleave' listener on the canvas.
AfterLeavePanelsOnly(hov, place) ==
  IF place \in {"canvas", "outside"} THEN hov
  ELSE [i \in 0..1 |-> IF (IF i = 0 THEN "panel0" ELSE "panel1") = place
                        THEN FALSE ELSE hov[i]]

\* The listeners that run when the pointer leaves one element: the canvas
\* 'mouseleave' resets both flags, a panel's 'mouseleave' resets its own.
AfterLeave(hov, place) ==
  IF place = "canvas" THEN [i \in Idx |-> FALSE]
  ELSE IF place = "outside" THEN hov
  ELSE [i \in Idx |-> IF PanelEl(i) = place THEN FALSE ELSE hov[i]]

\* The listener that runs when the pointer enters an element: a panel's
\* 'mouseenter' sets its own flag; the canvas has no 'mouseenter' listener.
AfterEnter(hov, place) ==
  IF place \in {"canvas", "outside"} THEN hov
  ELSE [i \in Idx |-> IF PanelEl(i) = place THEN TRUE ELSE hov[i]]

\* The pointer goes from the element it is over to another one (or off all of
\* them): 'mouseleave' is dispatched on the old one, then 'mouseenter' on the new.
PointerTo ==
  /\ variant = "hover"
  /\ \E place \in {"outside", "canvas"} \cup {PanelEl(i) : i \in 0..(nPanels - 1)} :
       /\ place # pointerOver
       /\ pointerOver' = place
       /\ isHovered' = AfterEnter(AfterLeave(isHovered, pointerOver), place)
  /\ movedSinceEnter' = FALSE
  /\ leftCanvas' = (IF pointerOver = "canvas" THEN TRUE
                    ELSE IF pointerOver' = "canvas" THEN FALSE ELSE leftCanvas)
  /\ pointerHandled' = (\/ pointerHandled
                        \/ pointerOver # "outside"
                        \/ pointerOver' \notin {"outside", "canvas"})
  /\ UNCHANGED <<variant, nPanels, envVars, layoutVars, loadVars, scrollVars,
                 frameVars, viewVars, smoothBase, smoothTicks, disposeVars,
                 pageVars>>

\* Pointer positions tried inside a canvas of the given extent: the two whole
\* pixels either side of the middle.
MousePositions(extent) == {(extent - 1) \div 2, (extent + 1) \div 2}

\* onMouseMove(event): the canvas 'mousemove' listener.  The canvas rectangle
\* has the size of the last renderer.setSize.
OnMouseMove ==
  /\ variant = "hover"
  /\ pointerOver = "canvas"
  /\ \E x \in MousePositions(rendererSize[1]), y \in MousePositions(rendererSize[2]) :
       isHovered' = MouseHover(isMobile, x, y, rendererSize[1], rendererSize[2])
  /\ movedSinceEnter' = TRUE
  /\ pointerHandled' = TRUE
  /\ UNCHANGED <<variant, nPanels, envVars, layoutVars, loadVars, pointerOver, leftCanvas,
                 scrollVars, frameVars, viewVars, smoothBase, smoothTicks,
                 disposeVars, pageVars>>

\* loadModels: what a settled load adds to loadedCount / onModelsLoaded.
Settle(i, kind, state) ==
  /\ models' = ModelsWrite(models, i, kind)
  /\ scenes' = SceneAdd(scenes, i, Node(i, kind))
  /\ loadState' = [loadState EXCEPT ![i] = state]
  /\ loadedCount' = loadedCount + 1
  /\ readyCount' = (IF ReadyFires(loadedCount + 1, nPanels)
                    THEN readyCount + 1 ELSE readyCount)
  /\ rotZ' = [rotZ EXCEPT ![i] = Zero]

\* loader.load success callback for panel i (scrollB): the normalised asset
\* joins scene i.
LoadSuccessAt(i) ==
  /\ variant = "scrollB"
  /\ loadState[i] = "pending"
  /\ Settle(i, "asset", "ok")
  /\ UNCHANGED <<variant, nPanels, envVars, layoutVars, hoverVars, scrollVars,
                 cameraAspect, rotY, scrollProgress, vpCalls, drawn, renderSurface,
                 renderNarrow, threw, lastDelta, ticks, rafPending,
                 viewVars, smoothBase, smoothTicks, disposeVars, pageVars>>

\* loader.load error callback for panel i (scrollB):
\* createPlaceholderModel(index, panel).
LoadErrorAt(i) ==
  /\ variant = "scrollB"
  /\ loadState[i] = "pending"
  /\ Settle(i, "placeholder", "failed")
  /\ UNCHANGED <<variant, nPanels, envVars, layoutVars, hoverVars, scrollVars,
                 cameraAspect, rotY, scrollProgress, vpCalls, drawn, renderSurface,
                 renderNarrow, threw, lastDelta, ticks, rafPending,
                 viewVars, smoothBase, smoothTicks, disposeVars, pageVars>>

LoadSuccess == \E i \in Idx : LoadSuccessAt(i)

LoadError == \E i \in Idx : LoadErrorAt(i)

\* What destroy() does: observer.disconnect() where there is an observer,
\* renderer.dispose(), and a dispose of every geometry and material found by
\* traversing every scene.  It cancels no frame callback, removes no listener
\* and sets no flag.
DestroyEffects ==
  /\ destroyCalls' = destroyCalls + 1
  /\ observing' = FALSE
  /\ rendererDisposals' = rendererDisposals + 1
  /\ scenes' = [k \in 1..Len(scenes) |-> DisposeScene(scenes[k])]

\* destroy(), called on the instance by its owner.
Destroy ==
  /\ destroyCalls < MaxDestroys
  /\ DestroyEffects
  /\ UNCHANGED <<variant, nPanels, envVars, layoutVars, models, loadState,
                 loadedCount, readyCount, hoverVars, scrollVars, frameVars,
                 viewVars, smoothBase, smoothTicks, lateRendererCall, pageVars>>

\* The container alone changes size (a layout change with the window as it
\* was): no listener of the class runs.  Only the hover variant reads the
\* container's client size.
ContainerResize ==
  /\ variant = "hover"
  /\ \E size \in Sizes \ {<<contW, contH>>} :
       /\ contW' = size[1]
       /\ contH' = size[2]
  /\ UNCHANGED <<variant, nPanels, winW, winH, layoutVars, loadVars, hoverVars,
                 scrollVars, frameVars, viewVars, smoothBase, smoothTicks,
                 disposeVars, pageVars>>

\* initShowcases(), run again by 'DOMContentLoaded' or 'shopify:section:load':
\* a container without the marker gets a new ProductShowcase, and the marker
\* once the constructor has returned; the loop then goes on to the containers
\* after this one, unless this one's constructor raised.  The instance
\* variables keep describing the first instance.
InitShowcases ==
  /\ IF initialized
     THEN /\ reinit' = "skipped"
          /\ UNCHANGED <<initialized, instances>>
     ELSE /\ instances < MaxInstances
          /\ instances' = instances + 1
          /\ initialized' = ~ConstructorThrows(variant, nPanels)
          /\ reinit' = (IF ConstructorThrows(variant, nPanels)
                        THEN "threw" ELSE "constructed")
  /\ \E contextAvailable \in [1..MaxSiblings -> BOOLEAN] :
       siblings' = (IF ~initialized /\ ConstructorThrows(variant, nPanels)
                    THEN siblings
                    ELSE InitFrom(siblings, contextAvailable, 1))
  /\ UNCHANGED <<variant, nPanels, envVars, layoutVars, loadVars, hoverVars,
                 scrollVars, frameVars, viewVars, smoothBase, smoothTicks,
                 disposeVars, unload>>

\* 'shopify:section:unload' for the section of the container:
\* if (container && container._showcase) container._showcase.destroy()
SectionUnload ==
  /\ IF HasUnloadHandler(variant) /\ ContainerShowcase # "undefined"
     THEN /\ DestroyEffects
          /\ unload' = "destroyed"
     ELSE /\ unload' = "ignored"
          /\ UNCHANGED <<destroyCalls, rendererDisposals, observing, scenes>>
  /\ UNCHANGED <<variant, nPanels, envVars, layoutVars, models, loadState,
                 loadedCount, readyCount, hoverVars, scrollVars, frameVars,
                 viewVars, smoothBase, smoothTicks, lateRendererCall,
                 initialized, instances, reinit, siblings>>

\* The steps of a constructed instance that nobody disposes.
Next ==
  \/ AnimateHover
  \/ AnimateScroll
  \/ OnResize
  \/ OnScroll
  \/ OnIntersect
  \/ PointerTo
  \/ OnMouseMove
  \/ LoadSuccess
  \/ LoadError

Spec == Init /\ [][Next]_vars

\* The hover variant alone: every step an instance of part_000 can take.
InitHover == Init /\ variant = "hover"
NextHover ==
  \/ AnimateHover
  \/ OnResize
  \/ PointerTo
  \/ OnMouseMove
SpecHover == InitHover /\ [][NextHover]_vars

\* The two scroll variants alone: every step an instance of either can take.
InitScroll == Init /\ variant \in ScrollVariants
NextScroll ==
  \/ AnimateScroll
  \/ OnResize
  \/ OnScroll
  \/ OnIntersect
  \/ LoadSuccess
  \/ LoadError
SpecScroll == InitScroll /\ [][NextScroll]_vars

\* An instance whose owner may call destroy() at any point.
NextDispose ==
  \/ AnimateHover
  \/ AnimateScroll
  \/ OnResize
  \/ OnIntersect
  \/ LoadSuccess
  \/ LoadError
  \/ Destroy
SpecDispose == Init /\ [][NextDispose]_vars

\* The page around the instance: initialization and unload notifications.
NextPage ==
  \/ InitShowcases
  \/ SectionUnload
  \/ AnimateHover
  \/ AnimateScroll
  \/ Destroy
SpecPage == Init /\ [][NextPage]_vars

\* Size changes, visibility changes and frames.
NextLayout ==
  \/ AnimateHover
  \/ AnimateScroll
  \/ OnResize
  \/ ContainerResize
  \/ OnIntersect
SpecLayout == Init /\ [][NextLayout]_vars

\* Loads settling between frames.
NextLoad ==
  \/ AnimateHover
  \/ AnimateScroll
  \/ OnIntersect
  \/ LoadSuccess
  \/ LoadError
SpecLoad == Init /\ [][NextLoad]_vars

\* Scroll, visibility and pointer events between frames.
NextEvents ==
  \/ AnimateHover
  \/ AnimateScroll
  \/ ScrollEvent
  \/ OnIntersect
  \/ PointerTo
  \/ OnMouseMove
SpecEvents == Init /\ [][NextEvents]_vars


\* ================================================================ properties
RectArea(r) == r[3] * r[4]
RectInside(r, width, height) ==
  /\ 0 <= r[1] /\ 0 <= r[2] /\ 0 <= r[3] /\ 0 <= r[4]
  /\ r[1] + r[3] <= width
  /\ r[2] + r[4] <= height
RectsDisjoint(r, q) ==
  \/ r[1] + r[3] <= q[1]
  \/ q[1] + q[3] <= r[1]
  \/ r[2] + r[4] <= q[2]
  \/ q[2] + q[4] <= r[2]

RECURSIVE RPow(_, _)
RPow(r, n) == IF n = 0 THEN One ELSE RMul(r, RPow(r, n - 1))

InUnit(r) == ~IsNaN(r) /\ RLe(Zero, r) /\ RLe(r, One)
NoneHovered == [i \in Idx |-> FALSE]
\* A frame callback ran in this step and reached render().
FrameRendered == ticks' = ticks + 1 /\ (variant = "hover" \/ isInView)

\* C1: whenever render() sets two viewports, the two rectangles lie inside the
\* surface, are disjoint and together cover every pixel of the surface.
C1_RegionsPartitionSurface ==
  Len(vpCalls) = 2 =>
    /\ RectInside(vpCalls[1], renderSurface[1], renderSurface[2])
    /\ RectInside(vpCalls[2], renderSurface[1], renderSurface[2])
    /\ RectsDisjoint(vpCalls[1], vpCalls[2])
    /\ RectArea(vpCalls[1]) + RectArea(vpCalls[2]) = renderSurface[1] * renderSurface[2]

\* C2: every draw of panel 0 goes to the left (wide) or top (narrow) rectangle
\* and every draw of panel 1 to the right or bottom one, halves being
\* floor(w/2) and floor(h/2); 1024x600 gives (0,0,512,600) and (512,0,512,600),
\* 375x800 gives (0,400,375,400) and (0,0,375,400).
C2_RegionFixedByIndex ==
  LET w == renderSurface[1]
      h == renderSurface[2]
  IN  /\ \A k \in 1..Len(drawn) :
           drawn[k].viewport =
             IF renderNarrow
             THEN (IF drawn[k].scene = 0 THEN <<0, h \div 2, w, h \div 2>>
                                         ELSE <<0, 0, w, h \div 2>>)
             ELSE (IF drawn[k].scene = 0 THEN <<0, 0, w \div 2, h>>
                                         ELSE <<w \div 2, 0, w \div 2, h>>)
      /\ (renderSurface = <<1024, 600>> /\ Len(drawn) = 2) =>
           /\ drawn[1].scene = 0 /\ drawn[1].viewport = <<0, 0, 512, 600>>
           /\ drawn[2].scene = 1 /\ drawn[2].viewport = <<512, 0, 512, 600>>
      /\ (renderSurface = <<375, 800>> /\ Len(drawn) = 2) =>
           /\ drawn[1].scene = 0 /\ drawn[1].viewport = <<0, 400, 375, 400>>
           /\ drawn[2].scene = 1 /\ drawn[2].viewport = <<0, 0, 375, 400>>

\* A frame after construction drew both panels of a 375x800 surface, stacked.
C2_Witness ==
  /\ ticks >= 1
  /\ renderSurface = <<375, 800>>
  /\ renderNarrow
  /\ Len(drawn) = 2

C4_BoundariesAnyHeights ==
  scrollSeen =>
    /\ scrollIn[1] <= 0 => targetScrollProgress = Zero
    /\ scrollIn[1] >= scrollIn[2] => targetScrollProgress = One

C4_Boundaries ==
  (scrollSeen /\ scrollIn[2] > 0) =>
    /\ scrollIn[1] <= 0 => targetScrollProgress = Zero
    /\ scrollIn[1] >= scrollIn[2] => targetScrollProgress = One
    /\ InUnit(targetScrollProgress)

C4_Monotone ==
  (/\ scrollSeen
   /\ scrollIn[2] > 0
   /\ scrollIn'[2] = scrollIn[2]
   /\ scrollIn'[1] >= scrollIn[1]) => RLe(targetScrollProgress, targetScrollProgress')

\* C4: when sectionHeight > viewportHeight, the target after a scroll event is
\* 0 for an offset <= 0, 1 for an offset >= sectionHeight - viewportHeight, and
\* a later scroll event with the same heights and an offset at least as large
\* yields a target at least as large.
C4_TargetBoundariesAndMonotone == []C4_Boundaries /\ [][C4_Monotone]_vars

\* A scroll event half way through a section two pixels higher than the viewport.
C4_Witness ==
  /\ scrollSeen
  /\ scrollIn = <<1, 2>>
  /\ targetScrollProgress = <<1, 2>>

\* C5: the target scroll progress is always a number in [0,1].
C5_TargetInUnitInterval == InUnit(targetScrollProgress)

C6_InUnit == ~IsNaN(scrollProgress) => InUnit(scrollProgress)

C6_Between ==
  (/\ ticks' = ticks + 1
   /\ ~IsNaN(scrollProgress)
   /\ ~IsNaN(targetScrollProgress)) =>
     /\ ~IsNaN(scrollProgress')
     /\ RLe(MathMin(scrollProgress, targetScrollProgress), scrollProgress')
     /\ RLe(scrollProgress', MathMax(scrollProgress, targetScrollProgress))

\* C6: as long as every target consumed by a tick was a number in [0,1], the
\* displayed progress is in [0,1] and each tick leaves it between its previous
\* value and the current target, inclusive.
C6_NoOvershoot == []C6_InUnit /\ [][C6_Between]_vars

\* Two frames into easing from 0 towards 1.
C6_Witness ==
  /\ ticks >= 2
  /\ targetScrollProgress = One
  /\ RLt(Zero, scrollProgress)
  /\ RLt(scrollProgress, One)

\* 0.92, the factor the claim names
Decay == Norm(92, 100)

\* The tolerances tried: 0.95, 0.9, 0.8, 0.75
Tolerances == {<<19, 20>>, <<9, 10>>, <<4, 5>>, <<3, 4>>}

\* For each tolerance, the least n <= 5 with 0.92^n <= eps.
TicksWithin ==
  [eps \in Tolerances |->
     CHOOSE n \in 0..5 :
       /\ RLe(RPow(Decay, n), eps)
       /\ \A m \in 0..(n - 1) : ~RLe(RPow(Decay, m), eps)]

C7_Step ==
  (/\ ticks' = ticks + 1
   /\ isInView
   /\ ~IsNaN(scrollProgress)
   /\ ~IsNaN(targetScrollProgress)) =>
     RSub(targetScrollProgress, scrollProgress') =
       RMul(RSub(targetScrollProgress, scrollProgress), Decay)

C7_ClosedForm ==
  (~IsNaN(targetScrollProgress) /\ ~IsNaN(smoothBase)) =>
    /\ scrollProgress =
         RSub(targetScrollProgress,
              RMul(RSub(targetScrollProgress, smoothBase), RPow(Decay, smoothTicks)))
    /\ (smoothBase = Zero /\ targetScrollProgress = One) =>
         scrollProgress = RSub(One, RPow(Decay, smoothTicks))
    /\ \A eps \in Tolerances :
         smoothTicks >= TicksWithin[eps] =>
           RLe(RAbs(RSub(targetScrollProgress, scrollProgress)), eps)

C8_ExactlyOneWhileInside ==
  (variant = "hover" /\ nPanels = 2 /\ pointerHandled /\ pointerOver = "canvas") =>
    (isHovered[0] # isHovered[1])

\* C8: while the pointer is over the canvas and a canvas mousemove has been
\* handled since it came in, exactly one of the two panels is engaged.
C8_ExactlyOneAfterMove ==
  (variant = "hover" /\ pointerOver = "canvas" /\ movedSinceEnter) =>
    (isHovered[0] # isHovered[1])

\* The pointer moved inside the canvas in the stacked layout and engaged panel 1.
C8_Witness ==
  /\ variant = "hover"
  /\ pointerOver = "canvas"
  /\ movedSinceEnter
  /\ isMobile
  /\ isHovered[1]
  /\ ~isHovered[0]

\* C9 as stated: once the pointer has left the canvas and not come back, both
\* panels are disengaged.
C9_DisengagedAfterLeave ==
  (variant = "hover" /\ nPanels = 2 /\ leftCanvas) => isHovered = NoneHovered

\* C9: once the pointer has left the canvas and is over neither the canvas nor
\* a panel element, both panels are disengaged.
C9_DisengagedOutside ==
  (variant = "hover" /\ leftCanvas /\ pointerOver = "outside") => isHovered = NoneHovered

\* The pointer left the canvas for a place outside every listened element,
\* and a frame ran since.
C9_Witness ==
  /\ variant = "hover"
  /\ leftCanvas
  /\ pointerOver = "outside"
  /\ ticks >= 1

C10_Step ==
  (variant = "hover" /\ ticks' = ticks + 1) =>
    \A i \in Idx :
      models[i] # "none" =>
        rotY'[i] = (IF isHovered[i] THEN rotY[i]
                    ELSE rotY[i] + RotationSpeedTenths * lastDelta')

\* C10: a hover-variant tick leaves an engaged panel's rotation.y unchanged and
\* adds rotationSpeed * delta to a non-engaged panel's, each panel by its own flag.
C10_RotationFrozenWhileEngaged == [][C10_Step]_vars

\* A 16 ms frame turned panel 1 while engaged panel 0 stood still.
C10_Witness ==
  /\ variant = "hover"
  /\ ticks = 1
  /\ lastDelta = 16
  /\ isHovered[0]
  /\ ~isHovered[1]
  /\ models[0] # "none"
  /\ models[1] # "none"
  /\ rotY[0] = 0
  /\ rotY[1] = 48

\* Every model node of every scene.
SceneNodes == UNION {{scenes[k][n] : n \in 1..Len(scenes[k])} : k \in 1..Len(scenes)}

\* C11: once destroy() has been called, however often and whether or not a
\* load was pending at the time, the renderer and the geometries and materials
\* of every node of every scene have been released.  A dispose() on an object
\* already disposed releases nothing, so "released exactly once" is "disposed
\* at least once".
C11_EachResourceReleased ==
  destroyCalls >= 1 =>
    /\ rendererDisposals >= 1
    /\ \A node \in SceneNodes : node.disposals >= 1

C12_Step ==
  (destroyCalls >= 1 /\ loadState' # loadState) =>
    /\ models' = models
    /\ scenes' = scenes
    /\ readyCount' = readyCount

\* C12: a load completion delivered after destroy() writes no models[] slot,
\* adds nothing to any scene and does not fire the ready signal.
C12_LateCompletionIsNoOp == [][C12_Step]_vars

\* A scroll-variant instance with both panels, after destroy().
C13_Disposed == variant \in ScrollVariants /\ nPanels = 2 /\ destroyCalls >= 1

C13_Step ==
  C13_Disposed =>
    UNCHANGED <<scrollProgress, targetScrollProgress, rotY, rotZ, isMobile,
                rendererSize, cameraAspect>>

\* C13: once destroy() has been called no renderer method runs any more and no
\* later step (frame callback, resize, visibility change) changes the motion or
\* layout state of the instance.
C13_DisposedIsTerminal ==
  [](C13_Disposed => ~lateRendererCall) /\ [][C13_Step]_vars

\* C14: every section 'unload' notification for a section whose container was
\* initialized with a two-panel scroll showcase has invoked destroy() on it.
C14_UnloadDestroys ==
  (variant \in ScrollVariants /\ nPanels = 2 /\ initialized /\ unload # "none") =>
    (unload = "destroyed" /\ destroyCalls >= 1)

\* C15: whatever initialization events arrive, one ProductShowcase at most is
\* constructed for the container and no repeated initialization raises.
C15_OneInstancePerContainer == instances <= 1 /\ reinit # "threw"

\* No load of the instance is pending.
AllSettled == \A i \in Idx : loadState[i] # "pending"

\* C16 as stated: for every instance the ready signal has fired exactly once
\* when every panel's load has settled, and not at all before.
C16_ReadyIffAllSettled == readyCount = (IF AllSettled THEN 1 ELSE 0)

\* C16: the ready signal fires at most once; for an instance with at least one
\* panel it has fired exactly when every panel's load has settled, by success
\* or by fallback, in every order; with no panels it never fires.
C16_ReadyOnceWhenAllSettled ==
  /\ readyCount <= 1
  /\ nPanels >= 1 => (readyCount = 1 <=> AllSettled)
  /\ nPanels = 0 => readyCount = 0

\* Panel 0's load failed, panel 1's succeeded, the signal fired once, and a
\* frame ran since.
C16_Witness ==
  /\ variant = "scrollB"
  /\ loadState = (0 :> "failed" @@ 1 :> "ok")
  /\ models = (0 :> "placeholder" @@ 1 :> "asset")
  /\ readyCount = 1
  /\ ticks >= 1

C17_Outcome ==
  variant = "scrollB" =>
    \A i \in 0..(nPanels - 1) :
      /\ loadState[i] = "ok" =>
           models[i] = "asset" /\ scenes[i + 1] = <<Node(i, "asset")>>
      /\ loadState[i] = "failed" =>
           models[i] = "placeholder" /\ scenes[i + 1] = <<Node(i, "placeholder")>>
      /\ loadState[i] = "pending" =>
           /\ models[i] = "none" /\ scenes[i + 1] = <<>>
           /\ ENABLED LoadSuccessAt(i)
           /\ ENABLED LoadErrorAt(i)

C17_Step ==
  \A i \in 0..(nPanels - 1) :
    loadState'[i] # loadState[i] =>
      \A j \in 0..(nPanels - 1) \ {i} :
        /\ loadState'[j] = loadState[j]
        /\ models'[j] = models[j]
        /\ scenes'[j + 1] = scenes[j + 1]
        /\ rotZ'[j] = rotZ[j]

\* C17: panel i's scene holds the asset iff its load succeeded and the
\* placeholder iff it failed; while its load is pending both completions can be
\* delivered whatever the state of the other load; and the completion of one
\* load changes neither the other panel's load, model nor scene.
C17_LoadsIndependent == []C17_Outcome /\ [][C17_Step]_vars

\* Panel 0's asset is in place while panel 1's load is still pending.
C17_Witness ==
  /\ variant = "scrollB"
  /\ nPanels = 2
  /\ loadState = (0 :> "ok" @@ 1 :> "pending")
  /\ scenes = <<<<Node(0, "asset")>>, <<>>>>

\* C18 as stated: there are exactly 2 scenes in every state after startup.
C18_ExactlyTwoScenes == Len(scenes) = 2

C18_Indexing ==
  /\ Len(scenes) = nPanels
  /\ \A k \in 1..Len(scenes) :
       /\ Len(scenes[k]) <= 1
       /\ \A n \in 1..Len(scenes[k]) :
            scenes[k][n].slot = k - 1 /\ scenes[k][n].kind = models[k - 1]
  /\ \A i \in Idx :
       models[i] # "none" => (i < nPanels /\ Len(scenes[i + 1]) = 1)
  /\ \A k \in 1..Len(drawn) :
       /\ drawn[k].scene < nPanels
       /\ drawn[k].viewport =
            ViewportRegion(drawn[k].scene, renderNarrow, renderSurface[1], renderSurface[2])
       /\ drawn[k].scissor = drawn[k].viewport

C18_Motion ==
  ticks' = ticks + 1 =>
    \A i \in Idx :
      /\ rotY'[i] # rotY[i] => (models[i] # "none" /\ ~isHovered[i])
      /\ rotZ'[i] # rotZ[i] => models[i] # "none"
      /\ (variant \in ScrollVariants /\ isInView /\ models[i] # "none") =>
           rotZ'[i] = RotationZFor(scrollProgress')

\* C18: there is one scene per configured panel (two for two panels), created
\* at startup, and index i means the same panel everywhere: a model in slot i
\* is the one node of scenes[i] and of no other scene, a tick moves models[i]
\* by motion state i, and the draw of scenes[i] goes to region i.
C18_IndexConsistency == []C18_Indexing /\ [][C18_Motion]_vars

\* Panel 0's asset and panel 1's placeholder are each the one node of their own
\* scene, and a frame drew both scenes.
C18_Witness ==
  /\ variant = "scrollB"
  /\ nPanels = 2
  /\ loadState = (0 :> "ok" @@ 1 :> "failed")
  /\ Len(drawn) = 2
  /\ ticks >= 1
  /\ scenes = <<<<Node(0, "asset")>>, <<Node(1, "placeholder")>>>>

C19_Step ==
  (variant \in ScrollVariants /\ ticks' = ticks + 1) =>
    /\ rafPending'
    /\ IF isInView
       THEN /\ smoothTicks' = smoothTicks + 1
            /\ renderSurface' = <<winW, winH>>
            /\ scrollProgress' = Smooth(scrollProgress, targetScrollProgress)
       ELSE UNCHANGED <<scrollProgress, rotZ, rotY, drawn, vpCalls, renderSurface,
                        renderNarrow, cameraAspect, threw, smoothTicks>>

\* C19: in the scroll variants a tick that runs while the section is not
\* intersecting changes neither the displayed progress nor any rotation, and
\* does not reach the smoothing and render() branch (smoothTicks counts the
\* ticks that do); it leaves a frame callback scheduled, and a tick that runs
\* while the section intersects smooths and renders.
C19_PausedTickSkipped == [][C19_Step]_vars

\* Two ticks without a scroll event, exactly one of them skipped, the section
\* visible again.
C19_Witness ==
  /\ variant \in ScrollVariants
  /\ ticks = 2
  /\ smoothTicks = 1
  /\ ~scrollSeen
  /\ isInView
  /\ rafPending

\* C20 as stated: for an instance with both panels the renderer's size equals
\* the current surface dimensions in every state, whichever of the window and
\* the container changed size.
C20_RendererMatchesSurface ==
  nPanels = 2 =>
    rendererSize = <<SurfaceW(variant, winW, contW), SurfaceH(variant, winH, contH)>>

C20_Current ==
  /\ isMobile = (winW < MobileBreakpoint)
  /\ variant \in ScrollVariants => rendererSize = <<winW, winH>>

C20_Step ==
  (winW' # winW \/ winH' # winH) =>
    /\ ticks' = ticks
    /\ isMobile' = (winW' < MobileBreakpoint)
    /\ rendererSize' = <<SurfaceW(variant, winW', contW'), SurfaceH(variant, winH', contH')>>
    /\ cameraAspect' = JsDiv(rendererSize'[1], rendererSize'[2])

\* C20: a window resize takes effect in the step of its handler, with no tick
\* in between: the renderer's size equals the surface dimensions and the narrow
\* flag is window.innerWidth < 768, whether the section is in view or not; in
\* the scroll variants both hold in every state.
C20_WindowResizeImmediate == []C20_Current /\ [][C20_Step]_vars

\* The window was resized to 768x801 while the section was out of view, and no
\* frame has rendered since.
C20_Witness ==
  /\ variant \in ScrollVariants
  /\ ~isInView
  /\ ticks >= 1
  /\ rendererSize = <<768, 801>>
  /\ ~isMobile
  /\ renderSurface # rendererSize

\* C21: at every draw of the last render the camera's aspect ratio is the
\* width / height of the rectangle the scene is drawn into.
C21_AspectMatchesRegion ==
  \A k \in 1..Len(drawn) :
    drawn[k].aspect = JsDiv(drawn[k].viewport[3], drawn[k].viewport[4])

\* The rectangle of panel i as the claim assigns it: left / right of a wide
\* surface, top / bottom of a narrow one, halves rounded down.
C22_Rect(i, narrow, w, h) ==
  IF narrow
  THEN (IF i = 0 THEN <<0, h \div 2, w, h \div 2>> ELSE <<0, 0, w, h \div 2>>)
  ELSE (IF i = 0 THEN <<0, 0, w \div 2, h>> ELSE <<w \div 2, 0, w \div 2, h>>)

\* C22: at every draw of the last render the scissor test is on, the scissor
\* rectangle is the viewport rectangle and both are the rectangle of the scene
\* drawn; scene 1 is never drawn with scene 0's rectangle as viewport or scissor.
C22_ScissorIsViewportIsRegion ==
  \A k \in 1..Len(drawn) :
    /\ drawn[k].scissorTest
    /\ drawn[k].scissor = drawn[k].viewport
    /\ drawn[k].viewport =
         C22_Rect(drawn[k].scene, renderNarrow, renderSurface[1], renderSurface[2])
    /\ drawn[k].scene = 1 =>
         /\ drawn[k].viewport # C22_Rect(0, renderNarrow, renderSurface[1], renderSurface[2])
         /\ drawn[k].scissor # C22_Rect(0, renderNarrow, renderSurface[1], renderSurface[2])

\* A frame of the hover variant drew panel 1 into the right half of a
\* 1024x600 container after the container had another size.
C22_Witness ==
  /\ variant = "hover"
  /\ ticks >= 1
  /\ rendererSize # <<1024, 600>>
  /\ renderSurface = <<1024, 600>>
  /\ Len(drawn) = 2
  /\ drawn[2].scene = 1
  /\ drawn[2].scissor = <<512, 0, 512, 600>>

\* C23: the last frame raised nothing and drew exactly the scenes that exist,
\* scene 0 before scene 1, whatever the number of panels.
C23_DrawsExistingScenes ==
  /\ ~threw
  /\ Len(drawn) = nPanels
  /\ \A k \in 1..Len(drawn) : drawn[k].scene = k - 1

\* C24: once initShowcases() has run over the page with this container already
\* initialized, every container after it has been visited, whether its render
\* surface could be created or not: none is left uninitialized behind a
\* container whose constructor raised.
C24_FailureIsolated ==
  reinit = "skipped" => \A c \in 1..Len(siblings) : siblings[c] # "uninitialized"

\* C25 as stated: every scene holds exactly one model node in every state
\* after startup.
C25_ExactlyOneNode == \A k \in 1..Len(scenes) : Len(scenes[k]) = 1

C25_Nodes ==
  \A k \in 1..Len(scenes) :
    /\ Len(scenes[k]) <= 1
    /\ Len(scenes[k]) = 1 <=> loadState[k - 1] # "pending"
    /\ Len(scenes[k]) = 1 => scenes[k][1].kind = models[k - 1]

C25_Step ==
  /\ \A k \in 1..Len(scenes) : scenes[k] # <<>> => scenes'[k] = scenes[k]
  /\ \A i \in Idx : models[i] # "none" => models'[i] = models[i]

\* C25: every scene holds at most one model node, and exactly one from the
\* moment its panel's load has settled (from startup where placeholders are
\* made synchronously); a node once in a scene is never replaced or joined by
\* another, and models[i] once written is never written again.
C25_OneNodeOnceSettled == []C25_Nodes /\ [][C25_Step]_vars

\* After a frame, panel 0 holds its fallback placeholder while panel 1's scene
\* still has no model node.
C25_Witness ==
  /\ variant = "scrollB"
  /\ nPanels = 2
  /\ ticks >= 1
  /\ loadState = (0 :> "failed" @@ 1 :> "pending")
  /\ scenes = <<<<Node(0, "placeholder")>>, <<>>>>

\* The render state: what only render() writes.
C26_Drawn == <<drawn, vpCalls, renderSurface, renderNarrow, cameraAspect, threw>>

\* C26 as stated: a step that is no tick (a scroll, visibility or pointer
\* handler) writes nothing but targetScrollProgress, isInView and isHovered.
C26_OwnFlagOnly ==
  [][ticks' = ticks =>
       UNCHANGED <<scrollProgress, rotY, rotZ, C26_Drawn, isMobile, rendererSize,
                   models, scenes, wrapperVisible, hasScrolled>>]_vars

C26_Step ==
  ticks' = ticks =>
    /\ UNCHANGED <<scrollProgress, rotY, rotZ, C26_Drawn, isMobile, rendererSize,
                   models, scenes>>
    /\ targetScrollProgress' # targetScrollProgress => UNCHANGED <<isInView, isHovered>>
    /\ isInView' # isInView =>
         UNCHANGED <<targetScrollProgress, isHovered, hasScrolled>>
    /\ isHovered' # isHovered =>
         UNCHANGED <<targetScrollProgress, isInView, wrapperVisible, hasScrolled>>

\* C26: a scroll, visibility or pointer handler changes neither the displayed
\* progress, nor a rotation, nor anything render() writes: those change in
\* ticks only.  Each handler writes its own flag or target and not another
\* handler's; beside it, the visibility handler shows or hides the canvas
\* wrapper at once (the wrapper is visible exactly while isInView holds) and
\* the first scroll event may mark the container.
C26_MotionChangesInTicksOnly ==
  [](variant \in ScrollVariants => wrapperVisible = isInView) /\ [][C26_Step]_vars

\* Before any later tick: a scroll event has moved the target to 1 and marked
\* the container, the section has left the view and the wrapper is hidden,
\* and the displayed progress and the last frame are as the first frame left them.
C26_Witness ==
  /\ variant \in ScrollVariants
  /\ nPanels = 2
  /\ ticks = 0
  /\ scrollSeen
  /\ hasScrolled
  /\ targetScrollProgress = One
  /\ scrollProgress = Zero
  /\ ~isInView
  /\ ~wrapperVisible
  /\ Len(drawn) = 2

\* Twice the displayed progress: the rotation about z in units of pi.
C27_Turn(progress) == RMul(progress, <<2, 1>>)

C27_Rotations ==
  /\ RotationZFor(Zero) = Zero
  /\ RotationZFor(One) = <<2, 1>>
  /\ variant \in ScrollVariants =>
       \A i \in Idx :
         models[i] # "none" => rotZ[i] \in {C27_Turn(scrollProgress), Zero}

C27_Step ==
  (variant \in ScrollVariants /\ ticks' = ticks + 1 /\ isInView) =>
    \A i \in Idx : models[i] # "none" => rotZ'[i] = C27_Turn(scrollProgress')

\* C27: in the scroll variants an unpaused tick leaves every model that is
\* present with rotation.z = 2 pi * displayed progress (0 at progress 0, 2 pi
\* at progress 1), the same for both panels; between ticks a model has that
\* rotation or, when its load completed after the last unpaused tick, the
\* rotation 0 it was created with, until the next unpaused tick.
C27_RotationFollowsProgress == []C27_Rotations /\ [][C27_Step]_vars

\* Two unpaused ticks towards 1 have turned panel 0's model to 2 pi * 0.1536,
\* and panel 1's model, which arrived after them, is still at 0.
C27_Witness ==
  /\ variant = "scrollB"
  /\ smoothTicks = 2
  /\ scrollProgress = <<96, 625>>
  /\ models[0] # "none"
  /\ rotZ[0] = <<192, 625>>
  /\ models[1] # "none"
  /\ rotZ[1] = Zero

\* The target is the clamped quotient of the latest scroll event, whether the
\* section was in view at that event or not.
C28_Target ==
  scrollSeen =>
    targetScrollProgress = MathMax(Zero, MathMin(One, JsDiv(scrollIn[1], scrollIn[2])))

C28_Step ==
  /\ ~isInView => scrollProgress' = scrollProgress
  /\ isInView' # isInView => scrollProgress' = scrollProgress
  /\ (variant \in ScrollVariants /\ isInView /\ ticks' = ticks + 1) =>
       scrollProgress' =
         RAdd(scrollProgress,
              RMul(RSub(targetScrollProgress, scrollProgress), <<2, 25>>))

\* C28: a scroll event sets the target whether the section is in view or not;
\* no step taken while it is out of view, and no change of visibility, changes
\* the displayed progress; and a tick in view moves the displayed progress by
\* 0.08 of its distance to the current target, so that after the section
\* returns the progress goes on from where it stood towards the latest target.
C28_ResumeWithoutJump == []C28_Target /\ [][C28_Step]_vars

\* The section is out of view, a scroll event has set the target to 0 since
\* the last unpaused tick, and the displayed progress stands at 0.08.
C28_Witness ==
  /\ variant \in ScrollVariants
  /\ ~isInView
  /\ scrollSeen
  /\ ticks = 2
  /\ smoothTicks = 0
  /\ targetScrollProgress = Zero
  /\ scrollProgress = <<2, 25>>

\* C29: after a scroll event with window.scrollY > 50 the container carries
\* the class 'has-scrolled', whatever scroll events came before it.
C29_ClassOnceScrolledPast ==
  (scrollSeen /\ ScrollYFor(scrollIn[1]) > 50) => hasScrolled


====
